---- MODULE Spec2Model ----
(***************************************************************************)
(* Model of aim_bias_md5_auto.py: the replay timeline, the nearest-frame   *)
(* search, the per-target deviation loop and the bias summary.             *)
(*                                                                         *)
(* Times and coordinates are integers.  Python's None is the empty tuple,  *)
(* an optional value v is the one-element tuple <<v>>.  A timeline frame   *)
(* and a hitobject are the tuple <<t, x, y>>, an error vector is <<dx,dy>>.*)
(* Quantities that the program holds as floats (means, millimetres,        *)
(* percentages) are IEEE-754 binary64 values: a sign, the 53 significand   *)
(* bits (most significant first, empty for zero) and the exponent of the   *)
(* last bit; every operation rounds to nearest, ties to even.              *)
(***************************************************************************)
EXTENDS Integers, Sequences, FiniteSets

VARIABLES pc, replay_data, timeline, target_time, max_delta, frame,
          resolved, hitobjects, include_radius, idx, errors,
          area_w_mm, area_h_mm, report

vars == <<pc, replay_data, timeline, target_time, max_delta, frame,
          resolved, hitobjects, include_radius, idx, errors,
          area_w_mm, area_h_mm, report>>

----------------------------------------------------------------------------
(* Bounds of the explored inputs *)

MaxFrames == 4

MaxTargetTime == 3

MaxDelta == 2

MaxReplayLen == 2

MaxTargets == 2

MaxErrors == 3

----------------------------------------------------------------------------
(* Generic helpers *)

None == <<>>

Abs(n) == IF n < 0 THEN 0 - n ELSE n

BoundedSeq(S, n) == UNION {[1..k -> S] : k \in 0..n}

Event(tspa, td, ex, ey) ==
    [time_since_previous_action |-> tspa, time_delta |-> td, x |-> ex, y |-> ey]

----------------------------------------------------------------------------
(* build_replay_timeline *)

\* dt = getattr(evt, "time_since_previous_action", None);
\* if dt is None: dt = getattr(evt, "time_delta", 0)
EventDelta(evt) ==
    IF evt.time_since_previous_action # None
    THEN evt.time_since_previous_action[1]
    ELSE IF evt.time_delta # None THEN evt.time_delta[1] ELSE 0

\* A variant that refuses to move the clock backwards.
AdvanceClamped(t, dt) == IF dt < 0 THEN t ELSE t + dt

\* t += dt
Advance(t, dt) == t + dt

RECURSIVE BuildFrom(_, _, _, _)
BuildFrom(events, i, t, acc) ==
    IF i > Len(events) THEN acc
    ELSE LET evt == events[i]
             nt  == Advance(t, EventDelta(evt))
         IN  BuildFrom(events, i + 1, nt, Append(acc, <<nt, evt.x, evt.y>>))

build_replay_timeline(events) == BuildFrom(events, 1, 0, <<>>)

----------------------------------------------------------------------------
(* find_closest_frame *)

\* A variant that also replaces the best frame on an equal distance.
ImprovesOrTies(best_dt, dt) == best_dt = None \/ dt <= best_dt[1]

\* if best_dt is None or dt < best_dt
Improves(best_dt, dt) == best_dt = None \/ dt < best_dt[1]

\* if t > target_time and best_dt is not None and t - target_time > best_dt
EarlyExit(t, tgt, best_dt) ==
    t > tgt /\ best_dt # None /\ t - tgt > best_dt[1]

\* A variant that rejects a distance equal to max_delta.
RejectsAtLimit(best, best_dt, maxd) ==
    best = None \/ best_dt = None \/ best_dt[1] >= maxd

\* if best is None or best_dt is None or best_dt > max_delta
Rejects(best, best_dt, maxd) ==
    best = None \/ best_dt = None \/ best_dt[1] > maxd

\* The for loop: the state after the scan, and how many frames it visited.
RECURSIVE ScanFrames(_, _, _, _, _)
ScanFrames(tl, tgt, i, best, best_dt) ==
    IF i > Len(tl)
    THEN [best |-> best, best_dt |-> best_dt, broke |-> FALSE, visited |-> Len(tl)]
    ELSE LET t    == tl[i][1]
             dt   == Abs(t - tgt)
             imp  == Improves(best_dt, dt)
             nbdt == IF imp THEN <<dt>> ELSE best_dt
             nb   == IF imp THEN tl[i] ELSE best
         IN  IF EarlyExit(t, tgt, nbdt)
             THEN [best |-> nb, best_dt |-> nbdt, broke |-> TRUE, visited |-> i]
             ELSE ScanFrames(tl, tgt, i + 1, nb, nbdt)

find_closest_frame(tl, tgt, maxd) ==
    LET s == ScanFrames(tl, tgt, 1, None, None)
    IN  IF Rejects(s.best, s.best_dt, maxd) THEN None ELSE s.best

----------------------------------------------------------------------------
(* Specification SpecFind: a timeline is built from replay events and      *)
(* searched once.                                                          *)

DeltaVals == {-3, 0, 2}

\* Events carrying time_since_previous_action, both attributes, only
\* time_delta, and neither attribute.
FindEvents ==
    {Event(<<d>>, None, 0, 0) : d \in DeltaVals}
      \cup {Event(<<0>>, <<2>>, 1, 0), Event(None, <<2>>, 1, 0), Event(None, None, 1, 0)}

NoReport == [out |-> <<>>, raised |-> FALSE]

InitFind ==
    /\ pc = "build"
    /\ replay_data \in BoundedSeq(FindEvents, MaxFrames)
    /\ target_time \in 0..MaxTargetTime
    /\ max_delta \in 0..MaxDelta
    /\ timeline = <<>>
    /\ frame = None
    /\ resolved = TRUE
    /\ hitobjects = <<>>
    /\ include_radius = 0
    /\ idx = 0
    /\ errors = <<>>
    /\ area_w_mm = 0
    /\ area_h_mm = 0
    /\ report = NoReport

BuildTimeline ==
    /\ pc = "build"
    /\ timeline' = build_replay_timeline(replay_data)
    /\ pc' = "built"
    /\ UNCHANGED <<replay_data, target_time, max_delta, frame, resolved,
                   hitobjects, include_radius, idx, errors, area_w_mm,
                   area_h_mm, report>>

FindClosest ==
    /\ pc = "built"
    /\ frame' = find_closest_frame(timeline, target_time, max_delta)
    /\ pc' = "found"
    /\ UNCHANGED <<replay_data, timeline, target_time, max_delta, resolved,
                   hitobjects, include_radius, idx, errors, area_w_mm,
                   area_h_mm, report>>

NextFind == BuildTimeline \/ FindClosest

SpecFind == InitFind /\ [][NextFind]_vars

----------------------------------------------------------------------------
(* Properties of the search *)

NonDecreasing(tl) == \A i \in 1..Len(tl) : \A j \in i..Len(tl) : tl[i][1] <= tl[j][1]

Dist(tl, i, tgt) == Abs(tl[i][1] - tgt)

IsNearest(tl, i, tgt) == \A j \in 1..Len(tl) : Dist(tl, i, tgt) <= Dist(tl, j, tgt)

FirstNearest(tl, tgt) ==
    CHOOSE i \in 1..Len(tl) :
        /\ IsNearest(tl, i, tgt)
        /\ \A j \in 1..(i - 1) : ~IsNearest(tl, j, tgt)

\* C1: on a non-decreasing timeline a returned frame is nearest to the target
\* time over the whole timeline, and is the first frame at that distance.
C1_NearestFirst ==
    (pc = "found" /\ NonDecreasing(timeline) /\ frame # None)
        => frame = timeline[FirstNearest(timeline, target_time)]

\* A tie T-k / T+k was resolved and the scan left the loop before the end.
C1_Witness ==
    /\ pc = "found"
    /\ NonDecreasing(timeline)
    /\ frame # None
    /\ \E i, j \in 1..Len(timeline) :
          /\ i < j
          /\ timeline[i][1] < target_time
          /\ timeline[j][1] > target_time
          /\ Dist(timeline, i, target_time) = Dist(timeline, j, target_time)
          /\ IsNearest(timeline, i, target_time)
          /\ frame = timeline[i]
    /\ ScanFrames(timeline, target_time, 1, None, None).visited < Len(timeline)

\* C2: on a non-decreasing timeline a frame is returned exactly when some
\* frame lies within max_delta of the target time; otherwise None.
C2_MatchedIffWithin ==
    (pc = "found" /\ NonDecreasing(timeline))
        => ((frame # None) <=>
              (\E i \in 1..Len(timeline) : Dist(timeline, i, target_time) <= max_delta))

\* The nearest frame lies at exactly max_delta > 0 and is returned.
C2_Witness ==
    /\ pc = "found"
    /\ NonDecreasing(timeline)
    /\ max_delta > 0
    /\ Len(timeline) > 0
    /\ Dist(timeline, FirstNearest(timeline, target_time), target_time) = max_delta
    /\ frame # None

RECURSIVE DeltaSum(_, _)
DeltaSum(events, k) == IF k = 0 THEN 0 ELSE DeltaSum(events, k - 1) + EventDelta(events[k])

WrongNearest ==
    \/ /\ frame # None
       /\ \E i \in 1..Len(timeline) :
             Dist(timeline, i, target_time) < Abs(frame[1] - target_time)
    \/ /\ frame = None
       /\ \E i \in 1..Len(timeline) : Dist(timeline, i, target_time) <= max_delta

\* C10: every event becomes a frame whose time is the running sum of the
\* deltas, negative ones included; a wrong answer of the search is returned
\* only for a timeline that is not non-decreasing, after an early exit.
C10_MonotonicityDependence ==
    /\ pc # "build" =>
          /\ Len(timeline) = Len(replay_data)
          /\ \A k \in 1..Len(timeline) : timeline[k][1] = DeltaSum(replay_data, k)
    /\ (pc = "found" /\ WrongNearest) =>
          /\ ~NonDecreasing(timeline)
          /\ ScanFrames(timeline, target_time, 1, None, None).broke

\* A timeline with a negative delta for which a frame that is not the nearest
\* one is returned.
C10_Witness ==
    /\ pc = "found"
    /\ \E k \in 1..Len(replay_data) : EventDelta(replay_data[k]) < 0
    /\ ~NonDecreasing(timeline)
    /\ frame # None
    /\ \E i \in 1..Len(timeline) :
          Dist(timeline, i, target_time) < Abs(frame[1] - target_time)

----------------------------------------------------------------------------
(* analyze_replay_with_md5 *)

MaxDeltaMs == 80

\* math.hypot(dx, dy), rounded up to the next integer: for an integer radius
\* r, sqrt(dx^2 + dy^2) <= r exactly when this value is <= r.
hypot(dx, dy) ==
    LET s == dx * dx + dy * dy
    IN  CHOOSE k \in 0..(Abs(dx) + Abs(dy)) :
            k * k >= s /\ (k = 0 \/ (k - 1) * (k - 1) < s)

\* A variant that drops a deviation lying exactly on the radius.
KeepErrorStrict(dist, radius) == dist < radius

\* if dist <= include_radius
KeepError(dist, radius) == dist <= radius

\* One iteration of "for t_obj, x_obj, y_obj in hitobjects".
LoopBody(tl, obj, radius, errs) ==
    LET f == find_closest_frame(tl, obj[1], MaxDeltaMs)
    IN  IF f = None THEN errs
        ELSE LET dx == f[2] - obj[2]
                 dy == f[3] - obj[3]
             IN  IF KeepError(hypot(dx, dy), radius)
                 THEN Append(errs, <<dx, dy>>)
                 ELSE errs

AnalyzeEvents ==
    {Event(<<100>>, None, 0, 0), Event(<<100>>, None, 48, 64), Event(<<0>>, None, 48, 64)}

HitObjectVals == {<<t, 0, oy>> : t \in {19, 20, 300}, oy \in {-1, 0}}

RadiusVals == {-1, 0, 80}

InitAnalyze ==
    /\ pc = "analyze"
    /\ replay_data \in BoundedSeq(AnalyzeEvents, MaxReplayLen)
    /\ hitobjects \in BoundedSeq(HitObjectVals, MaxTargets)
    /\ include_radius \in RadiusVals
    /\ resolved \in BOOLEAN
    /\ target_time = 0
    /\ max_delta = MaxDeltaMs
    /\ timeline = <<>>
    /\ frame = None
    /\ idx = 0
    /\ errors = <<>>
    /\ area_w_mm = 0
    /\ area_h_mm = 0
    /\ report = NoReport

\* The replay is missing or unreadable, carries no beatmap hash, or no .osu
\* file has that hash: return [].
AnalyzeAbort ==
    /\ pc = "analyze"
    /\ ~resolved
    /\ errors' = <<>>
    /\ pc' = "returned"
    /\ UNCHANGED <<replay_data, timeline, target_time, max_delta, frame,
                   resolved, hitobjects, include_radius, idx, area_w_mm,
                   area_h_mm, report>>

\* Replay and beatmap are loaded: build the timeline, errors = [].
AnalyzeBegin ==
    /\ pc = "analyze"
    /\ resolved
    /\ timeline' = build_replay_timeline(replay_data)
    /\ errors' = <<>>
    /\ idx' = 1
    /\ pc' = "loop"
    /\ UNCHANGED <<replay_data, target_time, max_delta, frame, resolved,
                   hitobjects, include_radius, area_w_mm, area_h_mm, report>>

LoopStep ==
    /\ pc = "loop"
    /\ idx <= Len(hitobjects)
    /\ target_time' = hitobjects[idx][1]
    /\ frame' = find_closest_frame(timeline, hitobjects[idx][1], MaxDeltaMs)
    /\ errors' = LoopBody(timeline, hitobjects[idx], include_radius, errors)
    /\ idx' = idx + 1
    /\ UNCHANGED <<pc, replay_data, timeline, max_delta, resolved, hitobjects,
                   include_radius, area_w_mm, area_h_mm, report>>

AnalyzeReturn ==
    /\ pc = "loop"
    /\ idx > Len(hitobjects)
    /\ pc' = "returned"
    /\ UNCHANGED <<replay_data, timeline, target_time, max_delta, frame,
                   resolved, hitobjects, include_radius, idx, errors,
                   area_w_mm, area_h_mm, report>>

NextAnalyze == AnalyzeAbort \/ AnalyzeBegin \/ LoopStep \/ AnalyzeReturn

SpecAnalyze == InitAnalyze /\ [][NextAnalyze]_vars

----------------------------------------------------------------------------
(* Properties of the deviation loop *)

Matched(k) == find_closest_frame(timeline, hitobjects[k][1], MaxDeltaMs) # None

Deviation(k) ==
    LET f == find_closest_frame(timeline, hitobjects[k][1], MaxDeltaMs)
    IN  <<f[2] - hitobjects[k][2], f[3] - hitobjects[k][3]>>

InsideRadius(v, radius) == radius >= 0 /\ v[1] * v[1] + v[2] * v[2] <= radius * radius

RECURSIVE AcceptedUpTo(_)
AcceptedUpTo(k) ==
    IF k = 0 THEN <<>>
    ELSE IF Matched(k) /\ InsideRadius(Deviation(k), include_radius)
         THEN Append(AcceptedUpTo(k - 1), Deviation(k))
         ELSE AcceptedUpTo(k - 1)

\* C3: the error list is, in target order, exactly the deviations of the
\* targets processed so far that were matched and lie within include_radius
\* (equality included); it is never longer than the target sequence and
\* holds no vector beyond the radius.
C3_ErrorsAreAcceptedDeviations ==
    (pc \in {"loop", "returned"} /\ resolved) =>
        /\ errors = AcceptedUpTo(idx - 1)
        /\ Len(errors) <= idx - 1
        /\ idx - 1 <= Len(hitobjects)
        /\ pc = "returned" => idx - 1 = Len(hitobjects)
        /\ \A n \in 1..Len(errors) : InsideRadius(errors[n], include_radius)

\* The loop is over; one target was unmatched and one deviation lying
\* exactly on a positive radius was kept.
C3_Witness ==
    /\ pc = "returned"
    /\ resolved
    /\ include_radius > 0
    /\ \E k \in 1..Len(hitobjects) : ~Matched(k)
    /\ \E n \in 1..Len(errors) :
          errors[n][1] * errors[n][1] + errors[n][2] * errors[n][2]
              = include_radius * include_radius
    /\ Len(errors) < Len(hitobjects)

\* C9: a negative include_radius is rejected: the deviation filter never
\* returns normally with it.
C9_NegativeRadiusFailsFast ==
    (resolved /\ include_radius < 0) => pc # "returned"

----------------------------------------------------------------------------
(* Binary64 arithmetic used by summarize_errors *)

Precision == 53

Zeros(k) == [i \in 1..k |-> 0]

RECURSIVE NatBits(_)
NatBits(n) == IF n = 0 THEN <<>> ELSE Append(NatBits(n \div 2), n % 2)

\* Zero bits appended to a dividend of at least have significant bits so that
\* its quotient by d carries at least Precision + 2 significant bits: the
\* quotient loses at most as many bits as d has.
GuardBits(have, d) == Precision + 2 - have + Len(NatBits(d))

FZero(neg) == [neg |-> neg, bits |-> <<>>, exp |-> 0]

FIsZero(f) == f.bits = <<>>

LeadingZeros(bits) ==
    IF \A i \in 1..Len(bits) : bits[i] = 0 THEN Len(bits)
    ELSE (CHOOSE i \in 1..Len(bits) : bits[i] = 1 /\ \A j \in 1..(i - 1) : bits[j] = 0) - 1

\* The next significand; an all-ones significand carries into the exponent.
Increment(bits, exp) ==
    IF \A i \in 1..Len(bits) : bits[i] = 1
    THEN [bits |-> <<1>> \o Zeros(Len(bits) - 1), exp |-> exp + 1]
    ELSE LET j == CHOOSE i \in 1..Len(bits) :
                      bits[i] = 0 /\ \A m \in (i + 1)..Len(bits) : bits[m] = 1
         IN  [bits |-> [i \in 1..Len(bits) |->
                          IF i < j THEN bits[i] ELSE IF i = j THEN 1 ELSE 0],
              exp |-> exp]

\* Round the value bits * 2^exp (plus a non-zero remainder below the last
\* bit when sticky) to Precision bits, to nearest, ties to even.  A value
\* with a remainder always arrives with more than Precision significant
\* bits (GuardBits), so the short branch is exact.
Round(neg, rawbits, exp, sticky) ==
    LET lz == LeadingZeros(rawbits)
        b  == SubSeq(rawbits, lz + 1, Len(rawbits))
        n  == Len(b)
    IN  IF n = 0 THEN FZero(neg)
        ELSE IF n <= Precision
        THEN [neg |-> neg, bits |-> b \o Zeros(Precision - n), exp |-> exp - (Precision - n)]
        ELSE LET keep == SubSeq(b, 1, Precision)
                 half == b[Precision + 1] = 1
                 rest == sticky \/ \E i \in (Precision + 2)..n : b[i] = 1
                 e    == exp + (n - Precision)
             IN  IF half /\ (rest \/ keep[Precision] = 1)
                 THEN LET up == Increment(keep, e)
                      IN  [neg |-> neg, bits |-> up.bits, exp |-> up.exp]
                 ELSE [neg |-> neg, bits |-> keep, exp |-> e]

\* Long division and multiplication walk the bits in blocks of BlockSize.
BlockSize == 8

Min(a, b) == IF a < b THEN a ELSE b

BlockCount(bits) == (Len(bits) + BlockSize - 1) \div BlockSize

\* Schoolbook division of bits lo..hi by d, continuing from state st.
RECURSIVE DivRange(_, _, _, _, _)
DivRange(bits, lo, hi, d, st) ==
    IF lo > hi THEN st
    ELSE LET v == 2 * st.rem + bits[lo]
         IN  IF v >= d
             THEN DivRange(bits, lo + 1, hi, d, [q |-> Append(st.q, 1), rem |-> v - d])
             ELSE DivRange(bits, lo + 1, hi, d, [q |-> Append(st.q, 0), rem |-> v])

RECURSIVE DivBlocks(_, _, _)
DivBlocks(bits, k, d) ==
    IF k = 0 THEN [q |-> <<>>, rem |-> 0]
    ELSE LET before == DivBlocks(bits, k - 1, d)
         IN  DivRange(bits, (k - 1) * BlockSize + 1, Min(k * BlockSize, Len(bits)),
                      d, [q |-> before.q, rem |-> before.rem])

\* Quotient bits and remainder of the number written by bits, divided by d.
LongDiv(bits, d) == DivBlocks(bits, BlockCount(bits), d)

\* Schoolbook multiplication of bits hi..lo (last bit first) by k >= 1.
\* The carry stays below k; testing it settles each digit before the next.
RECURSIVE MulRange(_, _, _, _, _)
MulRange(bits, hi, lo, k, st) ==
    IF hi < lo THEN st
    ELSE LET v   == bits[hi] * k + st.carry
             nxt == [acc |-> <<v % 2>> \o st.acc, carry |-> v \div 2]
         IN  IF nxt.carry < k /\ Len(nxt.acc) > 0
             THEN MulRange(bits, hi - 1, lo, k, nxt)
             ELSE nxt

\* The state after the last j blocks (counted from the end) are multiplied.
RECURSIVE MulBlocks(_, _, _)
MulBlocks(bits, j, k) ==
    IF j = 0 THEN [acc |-> <<>>, carry |-> 0]
    ELSE LET before == MulBlocks(bits, j - 1, k)
             hi     == Len(bits) - (j - 1) * BlockSize
         IN  MulRange(bits, hi, IF hi - BlockSize + 1 < 1 THEN 1 ELSE hi - BlockSize + 1,
                      k, [acc |-> before.acc, carry |-> before.carry])

\* Bits of the number written by bits, times k.
MulBits(bits, k) ==
    LET st == MulBlocks(bits, BlockCount(bits), k)
    IN  NatBits(st.carry) \o st.acc

\* float(Fraction(p, q)): the double nearest to p / q, q > 0.
FromRatio(p, q) ==
    IF p = 0 THEN FZero(FALSE)
    ELSE LET g   == GuardBits(1, q)
             res == LongDiv(NatBits(Abs(p)) \o Zeros(g), q)
         IN  Round(p < 0, res.q, 0 - g, res.rem # 0)

\* f / d for a float d holding a positive integer.
FDiv(f, d) ==
    IF FIsZero(f) THEN f
    ELSE LET g   == GuardBits(Precision, d)
             res == LongDiv(f.bits \o Zeros(g), d)
         IN  Round(f.neg, res.q, f.exp - g, res.rem # 0)

\* f * k for a float k holding an integer.
FMul(f, k) ==
    LET neg == (f.neg /\ k >= 0) \/ (~f.neg /\ k < 0)
    IN  IF FIsZero(f) \/ k = 0 THEN FZero(neg)
        ELSE Round(neg, MulBits(f.bits, Abs(k)), f.exp, FALSE)

\* abs(f)
FAbs(f) == [f EXCEPT !.neg = FALSE]

\* -f
FNeg(f) == [f EXCEPT !.neg = ~f.neg]

\* f > 0
FPositive(f) == ~f.neg /\ ~FIsZero(f)

BitsLess(a, b) ==
    \E i \in 1..Len(a) : a[i] < b[i] /\ \A j \in 1..(i - 1) : a[j] = b[j]

\* a < b for non-negative a and b
FLess(a, b) ==
    IF FIsZero(b) THEN FALSE
    ELSE IF FIsZero(a) THEN TRUE
    ELSE a.exp < b.exp \/ (a.exp = b.exp /\ BitsLess(a.bits, b.bits))

\* a == b
FEq(a, b) ==
    \/ FIsZero(a) /\ FIsZero(b)
    \/ a = b

----------------------------------------------------------------------------
(* summarize_errors *)

W0 == 512

H0 == 384

\* adjust_threshold_mm = 0.25
AdjustThresholdMm == FromRatio(1, 4)

Column(errs, c) == [i \in 1..Len(errs) |-> errs[i][c]]

\* The sum of data[lo..hi], by halves.
RECURSIVE SumRange(_, _, _)
SumRange(data, lo, hi) ==
    IF lo > hi THEN 0
    ELSE IF lo = hi THEN data[lo]
    ELSE LET mid == (lo + hi) \div 2
         IN  SumRange(data, lo, mid) + SumRange(data, mid + 1, hi)

SumFrom(data, i) == SumRange(data, i, Len(data))

\* A variant that leaves the first value out of the sum.
meanSkippingFirst(data) == FromRatio(SumFrom(data, 2), Len(data))

\* statistics.mean(data), for non-empty data: the exact sum over n,
\* converted to the nearest double.
mean(data) == FromRatio(SumFrom(data, 1), Len(data))

\* mean / 512.0 * area_w_mm, mean / 384.0 * area_h_mm: the quotient is
\* rounded, then the product is rounded.
ToMm(m, logical, area) == FMul(FDiv(m, logical), area)

\* A variant that counts a zero component with the negative side.
QuadrantZeroNegative(dx, dy) ==
    IF dx <= 0 /\ dy <= 0 THEN "top-left"
    ELSE IF dx > 0 /\ dy <= 0 THEN "top-right"
    ELSE IF dx <= 0 /\ dy > 0 THEN "bottom-left"
    ELSE "bottom-right"

\* The if / elif chain of the quadrant loop.
Quadrant(dx, dy) ==
    IF dx < 0 /\ dy < 0 THEN "top-left"
    ELSE IF dx >= 0 /\ dy < 0 THEN "top-right"
    ELSE IF dx < 0 /\ dy >= 0 THEN "bottom-left"
    ELSE "bottom-right"

Quadrants == {"top-left", "top-right", "bottom-left", "bottom-right"}

\* quad_counts after the loop: every vector adds one to its own bucket.
CountQuadrants(errs) ==
    [q \in Quadrants |->
        Cardinality({i \in 1..Len(errs) : Quadrant(errs[i][1], errs[i][2]) = q})]

\* pct = count / total * 100.0
Percent(count, total) == FMul(FromRatio(count, total), 100)

\* A variant that treats a bias equal to the threshold as below it.
NoAdjustmentInclusive(abs_dx_mm, abs_dy_mm, threshold) ==
    ~FLess(threshold, abs_dx_mm) /\ ~FLess(threshold, abs_dy_mm)

\* if abs_dx_mm < adjust_threshold_mm and abs_dy_mm < adjust_threshold_mm
NoAdjustment(abs_dx_mm, abs_dy_mm, threshold) ==
    FLess(abs_dx_mm, threshold) /\ FLess(abs_dy_mm, threshold)

\* "right" if v > 0 else "left"
DirX(v) == IF FPositive(v) THEN "right" ELSE "left"

\* "down" if v > 0 else "up"
DirY(v) == IF FPositive(v) THEN "down" ELSE "up"

\* A variant of the guard that lets an empty list through.
IsEmptyNever(errs) == FALSE

\* if not errors
IsEmpty(errs) == Len(errs) = 0

BlankReport ==
    [out |-> <<>>, raised |-> FALSE, total |-> 0,
     mean_dx |-> FZero(FALSE), mean_dy |-> FZero(FALSE),
     mean_dx_mm |-> FZero(FALSE), mean_dy_mm |-> FZero(FALSE),
     quad_counts |-> [q \in Quadrants |-> 0],
     pct |-> [q \in Quadrants |-> FZero(FALSE)],
     abs_dx_mm |-> FZero(FALSE), abs_dy_mm |-> FZero(FALSE),
     dir_x |-> "", dir_y |-> "",
     corr_abs_dx_mm |-> FZero(FALSE), corr_abs_dy_mm |-> FZero(FALSE),
     corr_dir_x |-> "", corr_dir_y |-> ""]

\* The body after the guard.  statistics.mean raises StatisticsError on empty
\* data; nothing has been printed by then.
Statistics(errs, area_w, area_h, threshold) ==
    IF Len(errs) = 0 THEN [BlankReport EXCEPT !.raised = TRUE]
    ELSE
    LET m_dx    == mean(Column(errs, 1))
        m_dy    == mean(Column(errs, 2))
        m_dx_mm == ToMm(m_dx, W0, area_w)
        m_dy_mm == ToMm(m_dy, H0, area_h)
        counts  == CountQuadrants(errs)
        total   == Len(errs)
        a_dx_mm == FAbs(m_dx_mm)
        a_dy_mm == FAbs(m_dy_mm)
        c_dx_mm == FNeg(m_dx_mm)
        c_dy_mm == FNeg(m_dy_mm)
        summary == [BlankReport EXCEPT
                      !.total = total,
                      !.mean_dx = m_dx, !.mean_dy = m_dy,
                      !.mean_dx_mm = m_dx_mm, !.mean_dy_mm = m_dy_mm,
                      !.quad_counts = counts,
                      !.pct = [q \in Quadrants |-> Percent(counts[q], total)],
                      !.abs_dx_mm = a_dx_mm, !.abs_dy_mm = a_dy_mm]
    IN  IF NoAdjustment(a_dx_mm, a_dy_mm, threshold)
        THEN [summary EXCEPT !.out = <<"summary", "quadrants", "no_adjustment">>]
        ELSE [summary EXCEPT
                !.out = <<"summary", "quadrants", "bias", "correction">>,
                !.dir_x = DirX(m_dx), !.dir_y = DirY(m_dy),
                !.corr_abs_dx_mm = FAbs(c_dx_mm),
                !.corr_abs_dy_mm = FAbs(c_dy_mm),
                !.corr_dir_x = DirX(c_dx_mm), !.corr_dir_y = DirY(c_dy_mm)]

summarize_errors(errs, area_w, area_h, threshold) ==
    IF IsEmpty(errs)
    THEN [BlankReport EXCEPT !.out = <<"no_usable">>]
    ELSE Statistics(errs, area_w, area_h, threshold)

VecVals == {<<dx, dy>> : dx \in {-1, 0, 1}, dy \in {-1, 0, 1}}

FourPoints == <<<<10, 0>>, <<-10, 0>>, <<0, 10>>, <<0, -10>>>>

\* Mean dy = 3/5: with a height of 160 mm the bias is exactly 1/4 mm.
ThreeOfFive == <<<<0, 1>>, <<0, 1>>, <<0, 1>>, <<0, 0>>, <<0, 0>>>>

\* One vector (1, 0) followed by 2048 vectors (0, 0), as a long replay
\* gives: mean dx = 1/2049, and with a width of 262272 mm (2049 * 128) the
\* bias is exactly 1/4 mm.
LongRun == [i \in 1..2049 |-> IF i = 1 THEN <<1, 0>> ELSE <<0, 0>>]

AreaWVals == {-128, 128, 262272}

AreaHVals == {96, 160}

InitSummary ==
    /\ pc = "summarize"
    /\ errors \in BoundedSeq(VecVals, MaxErrors) \cup {FourPoints, ThreeOfFive, LongRun}
    /\ area_w_mm \in AreaWVals
    /\ area_h_mm \in AreaHVals
    /\ report = NoReport
    /\ replay_data = <<>>
    /\ timeline = <<>>
    /\ target_time = 0
    /\ max_delta = MaxDeltaMs
    /\ frame = None
    /\ resolved = TRUE
    /\ hitobjects = <<>>
    /\ include_radius = 80
    /\ idx = 0

Summarize ==
    /\ pc = "summarize"
    /\ report' = summarize_errors(errors, area_w_mm, area_h_mm, AdjustThresholdMm)
    /\ pc' = "done"
    /\ UNCHANGED <<replay_data, timeline, target_time, max_delta, frame,
                   resolved, hitobjects, include_radius, idx, errors,
                   area_w_mm, area_h_mm>>

NextSummary == Summarize

SpecSummary == InitSummary /\ [][NextSummary]_vars

----------------------------------------------------------------------------
(* Properties of the summary *)

FIs(f, n) == FEq(f, FromRatio(n, 1))

\* C4 as stated: on the four axis points both means are 0 and every
\* quadrant holds exactly 25% of the vectors.
C4_EachQuadrantQuarter ==
    (pc = "done" /\ errors = FourPoints) =>
        /\ FIs(report.mean_dx, 0)
        /\ FIs(report.mean_dy, 0)
        /\ \A q \in Quadrants : FIs(report.pct[q], 25) /\ report.quad_counts[q] = 1

\* C4 amended: on the four axis points both means are 0, top-left holds 0%,
\* top-right 25%, bottom-left 25% and bottom-right 50% of the vectors.
C4_AxisPointsDistribution ==
    (pc = "done" /\ errors = FourPoints) =>
        /\ FIs(report.mean_dx, 0)
        /\ FIs(report.mean_dy, 0)
        /\ FIs(report.pct["top-left"], 0)
        /\ FIs(report.pct["top-right"], 25)
        /\ FIs(report.pct["bottom-left"], 25)
        /\ FIs(report.pct["bottom-right"], 50)

C4_Witness ==
    /\ pc = "done"
    /\ errors = FourPoints
    /\ report.total = 4
    /\ "quadrants" \in {report.out[i] : i \in DOMAIN report.out}

Side(v) ==
    <<IF v[2] < 0 THEN "top" ELSE "bottom", IF v[1] < 0 THEN "left" ELSE "right">>

SideOf(q) ==
    CASE q = "top-left" -> <<"top", "left">>
      [] q = "top-right" -> <<"top", "right">>
      [] q = "bottom-left" -> <<"bottom", "left">>
      [] q = "bottom-right" -> <<"bottom", "right">>

\* Two doubles are equal or neighbours (one unit in the last place apart).
WithinOneUlp(a, b) ==
    \/ FEq(a, b)
    \/ /\ ~FIsZero(a) /\ ~FIsZero(b) /\ a.neg = b.neg
       /\ \/ Increment(a.bits, a.exp) = [bits |-> b.bits, exp |-> b.exp]
          \/ Increment(b.bits, b.exp) = [bits |-> a.bits, exp |-> a.exp]

\* C5: for a non-empty list each bucket counts exactly the vectors on its
\* side (dx < 0 left, dx >= 0 right, dy < 0 top, dy >= 0 bottom), the counts
\* sum to the number of vectors, and each reported percentage is
\* 100 * count / n up to the rounding of the last bit, so that the
\* percentages sum to 100.
C5_QuadrantPartition ==
    (pc = "done" /\ errors # <<>>) =>
        /\ \A q \in Quadrants :
              report.quad_counts[q]
                  = Cardinality({i \in 1..Len(errors) : Side(errors[i]) = SideOf(q)})
        /\ report.quad_counts["top-left"] + report.quad_counts["top-right"]
             + report.quad_counts["bottom-left"] + report.quad_counts["bottom-right"]
               = Len(errors)
        /\ \A q \in Quadrants :
              WithinOneUlp(report.pct[q],
                           FromRatio(100 * report.quad_counts[q], Len(errors)))

\* A list holding (0,0), a vector with dx = 0 and dy < 0, and one with
\* dx < 0 and dy = 0 has been counted.
C5_Witness ==
    /\ pc = "done"
    /\ \E i \in 1..Len(errors) : errors[i] = <<0, 0>>
    /\ \E j \in 1..Len(errors) : errors[j] = <<0, -1>>
    /\ \E k \in 1..Len(errors) : errors[k] = <<-1, 0>>
    /\ report.quad_counts["bottom-right"] = 1
    /\ report.quad_counts["top-right"] = 1
    /\ report.quad_counts["bottom-left"] = 1

SumX == SumFrom(Column(errors, 1), 1)

SumY == SumFrom(Column(errors, 2), 1)

\* |mean / logical * area| < 1/4, in integers.
BelowQuarter(sum, area, logical) == 4 * Abs(sum * area) < logical * Len(errors)

Printed(tag) == tag \in {report.out[i] : i \in DOMAIN report.out}

\* C6 as stated: for a non-empty list and positive area dimensions "no
\* adjustment" is reported exactly when the bias mean / 512 * area_w and
\* mean / 384 * area_h is below the threshold on both axes; a bias equal to
\* the threshold on an axis yields a corrective suggestion.
C6_ThresholdGate ==
    (pc = "done" /\ errors # <<>> /\ area_w_mm > 0 /\ area_h_mm > 0) =>
        /\ Printed("no_adjustment")
             <=> (BelowQuarter(SumX, area_w_mm, W0) /\ BelowQuarter(SumY, area_h_mm, H0))
        /\ Printed("correction") <=> ~Printed("no_adjustment")

\* A double below 1/4: zero, or its leading bit weighs less than 2^-2.
FBelowQuarter(f) == FIsZero(f) \/ f.exp + Precision <= -2

\* C6 amended: the same gate on the biases as the program computes them in
\* double precision (the mean, the quotient and the product each rounded):
\* "no adjustment" exactly when both computed biases are below 0.25, a
\* correction otherwise, a computed bias equal to 0.25 included.
C6_ThresholdGateComputed ==
    (pc = "done" /\ errors # <<>> /\ area_w_mm > 0 /\ area_h_mm > 0) =>
        /\ Printed("no_adjustment")
             <=> /\ FBelowQuarter(FMul(FDiv(FromRatio(SumX, Len(errors)), W0), area_w_mm))
                 /\ FBelowQuarter(FMul(FDiv(FromRatio(SumY, Len(errors)), H0), area_h_mm))
        /\ Printed("correction") <=> ~Printed("no_adjustment")

\* The computed x bias equals the threshold exactly, the y bias is below it,
\* and a correction was suggested.
C6_Witness ==
    /\ pc = "done"
    /\ errors # <<>>
    /\ area_w_mm > 0
    /\ area_h_mm > 0
    /\ report.abs_dx_mm = FromRatio(1, 4)
    /\ FBelowQuarter(report.abs_dy_mm)
    /\ Printed("correction")

Opposite(a, b) ==
    \/ a = "left" /\ b = "right"
    \/ a = "right" /\ b = "left"
    \/ a = "up" /\ b = "down"
    \/ a = "down" /\ b = "up"

\* C7: whenever a correction is suggested for positive area dimensions, the
\* shift has the magnitude of the bias on each axis and the opposite
\* direction label on each axis.
C7_CorrectionOpposesBias ==
    (pc = "done" /\ Printed("correction") /\ area_w_mm > 0 /\ area_h_mm > 0) =>
        /\ FEq(report.corr_abs_dx_mm, report.abs_dx_mm)
        /\ FEq(report.corr_abs_dy_mm, report.abs_dy_mm)
        /\ Opposite(report.dir_x, report.corr_dir_x)
        /\ Opposite(report.dir_y, report.corr_dir_y)

\* C8: an empty list yields only the "no usable errors" line: nothing is
\* raised and no mean, percentage or suggestion is produced.
C8_EmptyShortCircuits ==
    (pc = "done" /\ errors = <<>>) =>
        /\ report.out = <<"no_usable">>
        /\ ~report.raised
        /\ report.total = 0

C8_Witness ==
    /\ pc = "done"
    /\ errors = <<>>
    /\ Printed("no_usable")

====
